---------------------------- MODULE Spec2Model ----------------------------
(***************************************************************************)
(* A model of FugledeProject: BalancedVectors.py (balanced vectors over    *)
(* Z_p and the differencing action on them) and Fuglede.py (subsets of     *)
(* Z_p^d, their log-Hadamard matrices and the row-balance test).           *)
(*                                                                         *)
(* Python values are modelled as follows.  A field element of Z_p is the   *)
(* integer 0..p-1 it prints as.  A tuple or list is a sequence (Python     *)
(* index i is TLA+ index i+1).  A value that may be either the int 0 or a  *)
(* tuple (the arguments and result of difference) is a record              *)
(* [t |-> "int" | "tuple", v |-> <sequence>].  A matrix is the sequence of *)
(* its rows.  An iterator is its cursor.                                   *)
(***************************************************************************)
EXTENDS Integers, Sequences, FiniteSets, TLC

VARIABLES
    pc,         \* position of the running method
    self,       \* the instance the method runs on (its fields)
    S,          \* the module-level name S of Fuglede.py (an instance)
    size,       \* the size argument of subsets / runtest
    vec0, vec1, \* arguments of is_balanced / difference / pairact
    vec2,       \* pairact's running value
    printed,    \* what pairact has printed, in order
    iters,      \* how many times pairact's loop body has run
    result,     \* the outcome of a call: a returned value or a raised error
    indices,    \* cursor of itertools.permutations in elements()
    lis,        \* elements(): the list of tuples seen so far
    yielded,    \* what a generator has yielded so far, in order
    row0, row1, \* arguments of row_difference
    elem0,      \* cursor of the outer generator (subsets / firstsets)
    elem1,      \* cursor of the inner generator (secondsets)
    H,          \* runtest: the log-Hadamard matrix of the current pair
    idx,        \* runtest: position in the list of row index pairs (i, j)
    passing,    \* runtest: the passing flag
    visited,    \* runtest: the pairs (elem0, elem1) tested so far, in order
    reported    \* runtest: the triples (elem0, elem1, H) printed so far

vars == <<pc, self, S, size, vec0, vec1, vec2, printed, iters, result,
          indices, lis, yielded, row0, row1, elem0, elem1, H, idx, passing,
          visited, reported>>

bvVars == <<vec0, vec1, vec2, printed, iters>>
genVars == <<indices, lis, yielded>>
rowVars == <<row0, row1>>
runVars == <<elem0, elem1, H, idx, passing, visited, reported>>

\* The value of a variable the running method does not use.
None == <<>>

-----------------------------------------------------------------------------
(* Bounds of the model. *)

\* elements(): the largest vector size enumerated.
MaxSize == 5
\* is_balanced, difference, pairact: the largest vector size.
MaxVecLen == 3
\* is_balanced: the longest sequence passed to it.
MaxSeqLen == 4
\* pairact: the loop body runs at most this many times in the model.
MaxIters == 3

-----------------------------------------------------------------------------
(* Arithmetic helpers. *)

Max(A) == CHOOSE x \in A : \A y \in A : y <= x

Min2(a, b) == IF a <= b THEN a ELSE b

RECURSIVE Fact(_)
Fact(n) == IF n <= 1 THEN 1 ELSE n * Fact(n - 1)

RECURSIVE Pow(_, _)
Pow(b, e) == IF e = 0 THEN 1 ELSE b * Pow(b, e - 1)

\* FiniteField(modulus) is Z_p only for a prime modulus.
Primes(n) == {p \in 2..n : \A k \in 2..(p - 1) : p % k # 0}

\* self.field(i): the residue of the integer i.
field(p, i) == i % p

\* Subtraction of two field elements.
FieldSub(p, a, b) == (a - b + p) % p

\* list.count
Count(V, x) == Cardinality({k \in 1..Len(V) : V[k] = x})

-----------------------------------------------------------------------------
(* BalancedVectors.py *)

\* BalancedVectors.__init__: the assert admits a size that is a multiple of
\* the modulus.
BalancedVectors(sz, modulus) ==
    [size |-> sz, modulus |-> modulus, quotient |-> sz \div modulus]

\* The instances whose construction passes the assert, up to a size.
BVInstances(maxsize) ==
    {BalancedVectors(c[1], c[2]) :
        c \in {c \in (1..maxsize) \X Primes(maxsize) : c[1] % c[2] = 0}}

PyInt(n) == [t |-> "int", v |-> <<n>>]
PyTuple(s) == [t |-> "tuple", v |-> s]
PyBool(b) == [t |-> "bool", v |-> <<b>>]

is_balanced_short(slf, vec) ==
    \A i \in 0..(slf.modulus - 2) : Count(vec, i) = slf.quotient

\* is_balanced: False at the first value whose count is not the quotient.
is_balanced(slf, vec) ==
    \A i \in 0..(slf.modulus - 1) : Count(vec, i) = slf.quotient

\* The list [self.field(i) for i in range(self.size)] that elements() permutes.
pool(slf) == [i \in 1..slf.size |-> field(slf.modulus, i - 1)]

\* itertools.permutations emits the index permutations in lexicographic order.
HasNextPerm(p) == \E k \in 1..(Len(p) - 1) : p[k] < p[k + 1]

NextPerm(p) ==
    LET n == Len(p)
        i == Max({k \in 1..(n - 1) : p[k] < p[k + 1]})
        j == Max({k \in (i + 1)..n : p[k] > p[i]})
        swapped == [p EXCEPT ![i] = p[j], ![j] = p[i]]
    IN  [k \in 1..n |-> IF k <= i THEN swapped[k] ELSE swapped[n + i + 1 - k]]

\* The tuple itertools.permutations gives for an index permutation.
permutation(slf, ind) == [k \in 1..slf.size |-> pool(slf)[ind[k]]]

InSeq(x, seq) == \E k \in 1..Len(seq) : seq[k] = x

not_in_last(x, seq) == Len(seq) = 0 \/ seq[Len(seq)] # x

\* permutation not in lis
not_in(x, seq) == ~InSeq(x, seq)

\* One turn of the for loop of elements(): the next permutation is appended
\* and yielded unless it is in lis already.
elements_step ==
    /\ pc = "elements"
    /\ LET perm == permutation(self, indices)
       IN  IF not_in(perm, lis)
           THEN /\ lis' = Append(lis, perm)
                /\ yielded' = Append(yielded, perm)
           ELSE UNCHANGED <<lis, yielded>>
    /\ IF HasNextPerm(indices)
       THEN /\ indices' = NextPerm(indices)
            /\ pc' = "elements"
       ELSE /\ indices' = indices
            /\ pc' = "done"
    /\ UNCHANGED <<self, S, size, result>>
    /\ UNCHANGED bvVars /\ UNCHANGED rowVars /\ UNCHANGED runVars

InitElements ==
    /\ pc = "elements"
    /\ self \in BVInstances(MaxSize)
    /\ indices = [k \in 1..self.size |-> k]
    /\ lis = <<>>
    /\ yielded = <<>>
    /\ S = None /\ size = None /\ result = None
    /\ vec0 = None /\ vec1 = None /\ vec2 = None /\ printed = None /\ iters = None
    /\ row0 = None /\ row1 = None
    /\ elem0 = None /\ elem1 = None /\ H = None /\ idx = None
    /\ passing = None /\ visited = None /\ reported = None

NextElements == elements_step

SpecElements == InitElements /\ [][NextElements]_vars

\* The balanced vectors of a size over Z_p, stated without the code: the
\* sequences over 0..p-1 in which every value fills an equal share.
BalancedTuples(n, p) ==
    {v \in [1..n -> 0..(p - 1)] :
        \A a \in 0..(p - 1) : Cardinality({i \in 1..n : v[i] = a}) * p = n}

Multinomial(n, p) == Fact(n) \div Pow(Fact(n \div p), p)

NoDuplicates(seq) == \A a, b \in 1..Len(seq) : a # b => seq[a] # seq[b]

\* C1: elements() yields exactly the balanced vectors of the instance: every
\* yielded tuple has length size with each value 0..modulus-1 appearing
\* size/modulus times, no tuple is yielded twice, and once the generator is
\* exhausted every balanced tuple has been yielded, so their number is the
\* multinomial coefficient.
C1_ElementsExact ==
    /\ \A k \in 1..Len(yielded) :
          /\ Len(yielded[k]) = self.size
          /\ \A a \in 0..(self.modulus - 1) :
                Count(yielded[k], a) * self.modulus = self.size
          /\ \A i \in 1..self.size : yielded[k][i] \in 0..(self.modulus - 1)
    /\ NoDuplicates(yielded)
    /\ pc = "done" =>
          /\ {yielded[k] : k \in 1..Len(yielded)}
                = BalancedTuples(self.size, self.modulus)
          /\ Len(yielded) = Multinomial(self.size, self.modulus)

C1_Witness ==
    /\ pc = "done"
    /\ self.size = 4 /\ self.modulus = 2
    /\ Len(yielded) = 6

-----------------------------------------------------------------------------
(* is_balanced as a call of its own. *)

\* The variables no BalancedVectors method but elements() touches.
InitOthersUnused ==
    /\ S = None /\ size = None
    /\ indices = None /\ lis = None /\ yielded = None
    /\ row0 = None /\ row1 = None
    /\ elem0 = None /\ elem1 = None /\ H = None /\ idx = None
    /\ passing = None /\ visited = None /\ reported = None

\* The sequences of field elements of a length up to n.
SeqsUpTo(p, n) == UNION {[1..m -> 0..(p - 1)] : m \in 0..n}

\* The call is_balanced(vec): the code counts and compares, and raises nothing.
is_balanced_call ==
    /\ pc = "is_balanced"
    /\ result' = PyBool(is_balanced(self, vec0))
    /\ pc' = "done"
    /\ UNCHANGED <<self, S, size>>
    /\ UNCHANGED bvVars /\ UNCHANGED genVars /\ UNCHANGED rowVars
    /\ UNCHANGED runVars

InitIsBalanced ==
    /\ pc = "is_balanced"
    /\ self \in BVInstances(MaxVecLen)
    /\ vec0 \in SeqsUpTo(self.modulus, MaxSeqLen)
    /\ vec1 = None /\ vec2 = None /\ printed = None /\ iters = None
    /\ result = None
    /\ InitOthersUnused

NextIsBalanced == is_balanced_call

SpecIsBalanced == InitIsBalanced /\ [][NextIsBalanced]_vars

WrongLength == Len(vec0) # self.modulus * self.quotient

\* C8 as stated: is_balanced applied to a sequence whose length is not
\* modulus * quotient ends in an InvalidInput error instead of a boolean.
C8_RejectsWrongLength ==
    (pc = "done" /\ WrongLength) => result = [t |-> "error", v |-> <<"InvalidInput">>]

\* C8 as amended: is_balanced applied to a sequence of field elements whose
\* length is not modulus * quotient raises nothing and returns the boolean
\* False.
C8_WrongLengthIsFalse ==
    (pc = "done" /\ WrongLength) => result = PyBool(FALSE)

C8_Witness ==
    /\ pc = "done"
    /\ WrongLength
    /\ Len(vec0) = 3 /\ self.modulus = 2
    /\ result = PyBool(FALSE)

-----------------------------------------------------------------------------
(* difference and pairact. *)

PyStr(s) == [t |-> "str", v |-> <<s>>]

difference_swapped(slf, v0, v1) ==
    IF v0 = PyInt(0) \/ v1 = PyInt(0)
    THEN PyInt(0)
    ELSE LET dif == [i \in 1..slf.size |-> FieldSub(slf.modulus, v1.v[i], v0.v[i])]
         IN  IF is_balanced(slf, dif) = TRUE THEN PyTuple(dif) ELSE PyInt(0)

difference_unchecked(slf, v0, v1) ==
    IF v0 = PyInt(0) \/ v1 = PyInt(0)
    THEN PyInt(0)
    ELSE PyTuple([i \in 1..slf.size |-> FieldSub(slf.modulus, v0.v[i], v1.v[i])])

\* difference: the int 0 stands for the unbalanced vector and absorbs; a tuple
\* never equals the int 0.
difference(slf, v0, v1) ==
    IF v0 = PyInt(0) \/ v1 = PyInt(0)
    THEN PyInt(0)
    ELSE LET dif == [i \in 1..slf.size |-> FieldSub(slf.modulus, v0.v[i], v1.v[i])]
         IN  IF is_balanced(slf, dif) = TRUE THEN PyTuple(dif) ELSE PyInt(0)

\* pairact up to its while loop: the first difference and the degenerate exit.
pairact_start ==
    /\ pc = "pairact"
    /\ vec2' = difference(self, vec0, vec1)
    /\ IF vec2' = PyInt(0)
       THEN /\ printed' = Append(printed,
                  PyStr("This action is degenerate. It produces the unbalanced element."))
            /\ pc' = "done"
       ELSE /\ printed' = printed
            /\ pc' = "while"
    /\ UNCHANGED <<self, S, size, result, vec0, vec1, iters>>
    /\ UNCHANGED genVars /\ UNCHANGED rowVars /\ UNCHANGED runVars

pairact_while_vec0 ==
    /\ pc = "while"
    /\ IF vec2 # vec0
       THEN /\ iters < MaxIters
            /\ printed' = Append(printed, vec2)
            /\ vec2' = difference(self, vec0, vec2)
            /\ iters' = iters + 1
            /\ pc' = "while"
       ELSE /\ pc' = "done"
            /\ UNCHANGED <<printed, vec2, iters>>
    /\ UNCHANGED <<self, S, size, result, vec0, vec1>>
    /\ UNCHANGED genVars /\ UNCHANGED rowVars /\ UNCHANGED runVars

\* The while loop of pairact: its test and, when it holds, one run of its body.
pairact_while ==
    /\ pc = "while"
    /\ IF vec2 # vec1
       THEN /\ iters < MaxIters
            /\ printed' = Append(printed, vec2)
            /\ vec2' = difference(self, vec0, vec2)
            /\ iters' = iters + 1
            /\ pc' = "while"
       ELSE /\ pc' = "done"
            /\ UNCHANGED <<printed, vec2, iters>>
    /\ UNCHANGED <<self, S, size, result, vec0, vec1>>
    /\ UNCHANGED genVars /\ UNCHANGED rowVars /\ UNCHANGED runVars

\* The unbalanced vector and the vectors of the instance's size.
PyVectors(slf) ==
    {PyInt(0)} \cup {PyTuple(v) : v \in [1..slf.size -> 0..(slf.modulus - 1)]}

InitPairact ==
    /\ pc = "pairact"
    /\ self \in BVInstances(MaxVecLen)
    /\ vec0 \in PyVectors(self)
    /\ vec1 \in PyVectors(self)
    /\ vec2 = PyInt(0) /\ printed = <<>> /\ iters = 0
    /\ result = None
    /\ InitOthersUnused

NextPairact == pairact_start \/ pairact_while

SpecPairact == InitPairact /\ [][NextPairact]_vars

\* pairact is sequential code: a step that can be taken is taken.
FairSpecPairact == SpecPairact /\ WF_vars(NextPairact)

Bottom == PyInt(0)

\* vec0 - vec1, component by component, stated without the code.
Minus(a, b) == [i \in 1..self.size |-> (a.v[i] + self.modulus - b.v[i]) % self.modulus]

IsBalancedVector(x) ==
    x.t = "tuple" /\ x.v \in BalancedTuples(self.size, self.modulus)

DifferenceValue(a, b) ==
    IF a = Bottom \/ b = Bottom
    THEN Bottom
    ELSE IF IsBalancedVector(PyTuple(Minus(a, b)))
         THEN PyTuple(Minus(a, b))
         ELSE Bottom

\* C2: difference is total on (Vector + bottom) x (Vector + bottom): bottom
\* when an argument is bottom, the component-wise difference when that is
\* balanced, bottom when it is not; and difference(v, v) is bottom.
C2_DifferenceTotal ==
    (pc # "pairact" /\ iters = 0) =>
        /\ vec2 \in PyVectors(self)
        /\ vec2 = DifferenceValue(vec0, vec1)
        /\ (vec0 = vec1 /\ self.modulus > 1) => vec2 = Bottom

C2_Witness ==
    /\ pc = "while" /\ iters = 0
    /\ vec0 # Bottom /\ vec1 # Bottom
    /\ vec2 = PyTuple(Minus(vec0, vec1))

BalancedInputs == IsBalancedVector(vec0) /\ IsBalancedVector(vec1)

NonDegenerate == DifferenceValue(vec0, vec1) # Bottom

DegenerateReport ==
    <<PyStr("This action is degenerate. It produces the unbalanced element.")>>

\* C7: for balanced vec0 and vec1, pairact terminates: with a difference that
\* is not bottom the loop ends with the running value equal to vec1, and with
\* a difference that is bottom it reports the degenerate action and stops
\* without entering the loop.
C7_PairactTerminates ==
    (pc = "pairact" /\ BalancedInputs) ~>
        /\ pc = "done"
        /\ IF NonDegenerate
           THEN vec2 = vec1
           ELSE iters = 0 /\ printed = DegenerateReport

C7_Witness ==
    /\ pc = "done"
    /\ BalancedInputs /\ NonDegenerate
    /\ iters = 1
    /\ vec2 = vec1

\* C10: for balanced vec0 and vec1 with a difference that is not bottom,
\* difference(vec0, difference(vec0, vec1)) = vec1, so the loop body of pairact
\* runs at most once and prints at most one value, vec0 - vec1, and only when
\* that differs from vec1.
C10_Involution ==
    (BalancedInputs /\ NonDegenerate) =>
        /\ difference(self, vec0, difference(self, vec0, vec1)) = vec1
        /\ iters <= 1
        /\ pc = "while" => vec2 \in {vec1, PyTuple(Minus(vec0, vec1))}
        /\ pc = "done" =>
              printed = IF PyTuple(Minus(vec0, vec1)) = vec1
                        THEN <<>>
                        ELSE <<PyTuple(Minus(vec0, vec1))>>

C10_Witness ==
    /\ pc = "done"
    /\ BalancedInputs
    /\ printed = <<PyTuple(Minus(vec0, vec1))>>
    /\ printed[1] # vec1

-----------------------------------------------------------------------------
(* Fuglede.py: matrices over Z_p and the order MatrixSpace enumerates them in. *)

\* subsets, firstsets, secondsets: the largest dimension of the space.
MaxDimension == 2
\* subsets, firstsets, secondsets: the most entries (dimension * size) of an
\* enumerated matrix.
MaxEntries == 6
\* The largest modulus of a SubsetPairs instance.
MaxModulus == 3
\* row_difference: the longest rows passed to it.
MaxRowLen == 4

RECURSIVE SumFrom(_, _)
SumFrom(v, k) == IF k > Len(v) THEN 0 ELSE v[k] + SumFrom(v, k + 1)

\* The lexicographically largest way to put r into cells of capacity m: the
\* content of the k-th cell.
Greedy(r, k, m) ==
    IF r - (k - 1) * m >= m THEN m
    ELSE IF r - (k - 1) * m <= 0 THEN 0
    ELSE r - (k - 1) * m

\* Iterating a MatrixSpace over a finite ring runs through the entry lists by
\* weight (the sum of the entries), and within a weight from the
\* lexicographically largest list down.  The last list is all p-1.
HasNextEntries(p, v) == \E k \in 1..Len(v) : v[k] < p - 1

NextEntries(p, v) ==
    LET n == Len(v)
        m == p - 1
        movable == {i \in 1..(n - 1) : v[i] > 0 /\ \E k \in (i + 1)..n : v[k] < m}
    IN  IF movable # {}
        THEN LET i == Max(movable)
                 r == 1 + SumFrom(v, i + 1)
             IN  [k \in 1..n |->
                    IF k < i THEN v[k]
                    ELSE IF k = i THEN v[i] - 1
                    ELSE Greedy(r, k - i, m)]
        ELSE [k \in 1..n |-> Greedy(SumFrom(v, 1) + 1, k, m)]

\* A matrix is the sequence of its rows; its entry list is row-major.
NRows(M) == Len(M)
NCols(M) == Len(M[1])
Entries(M) == [k \in 1..(NRows(M) * NCols(M)) |->
                 M[((k - 1) \div NCols(M)) + 1][((k - 1) % NCols(M)) + 1]]
ToMatrix(v, nrows, ncols) ==
    [r \in 1..nrows |-> [c \in 1..ncols |-> v[(r - 1) * ncols + c]]]
ZeroMatrix(nrows, ncols) == [r \in 1..nrows |-> [c \in 1..ncols |-> 0]]

HasNextMatrix(p, M) == HasNextEntries(p, Entries(M))
NextMatrix(p, M) == ToMatrix(NextEntries(p, Entries(M)), NRows(M), NCols(M))

\* list(MatrixSpace(field, nrows, ncols)), from a matrix on.
RECURSIVE MatrixSpaceListFrom(_, _)
MatrixSpaceListFrom(p, M) ==
    IF HasNextMatrix(p, M)
    THEN <<M>> \o MatrixSpaceListFrom(p, NextMatrix(p, M))
    ELSE <<M>>

MatrixSpaceList(p, nrows, ncols) == MatrixSpaceListFrom(p, ZeroMatrix(nrows, ncols))

\* elem.transpose()[i] and elem.columns()[i], for the Python index i.
Column(M, i) == [r \in 1..NRows(M) |-> M[r][i + 1]]

\* Matrix(vector): the 1 x d matrix with that row.
RowMatrix(v) == <<v>>

\* list.index: the Python index of the first occurrence.
index(seq, x) == (CHOOSE k \in 1..Len(seq) :
                     seq[k] = x /\ \A j \in 1..(k - 1) : seq[j] # x) - 1

\* SubsetPairs.__init__: the fields the methods read.
SubsetPairs(modulus, dimension) ==
    [modulus |-> modulus, dimension |-> dimension,
     elements |-> MatrixSpaceList(modulus, 1, dimension)]

SPInstances ==
    {SubsetPairs(p, d) : p \in Primes(MaxModulus), d \in 1..MaxDimension}

\* The sizes whose matrices over a space of dimension d the model enumerates.
Sizes(d) == {s \in 1..MaxEntries : d * s <= MaxEntries}

-----------------------------------------------------------------------------
(* subsets, firstsets, secondsets. *)

subsets_passing_weak(slf, elem, sz) ==
    \A i \in 0..(sz - 2) :
        ~(index(slf.elements, RowMatrix(Column(elem, i)))
            > index(slf.elements, RowMatrix(Column(elem, i + 1))))

\* The passing flag of subsets: no column at or after its right neighbour in
\* self.elements.
subsets_passing(slf, elem, sz) ==
    \A i \in 0..(sz - 2) :
        ~(index(slf.elements, RowMatrix(Column(elem, i)))
            >= index(slf.elements, RowMatrix(Column(elem, i + 1))))

\* The multiplicative inverse in Z_p of a nonzero element.
Inverse(p, a) == CHOOSE b \in 1..(p - 1) : (a * b) % p = 1

\* Gauss-Jordan elimination over Z_p from row r and column c on (1-based).
RECURSIVE RrefFrom(_, _, _, _)
RrefFrom(p, M, r, c) ==
    IF r > NRows(M) \/ c > NCols(M)
    THEN M
    ELSE LET pivots == {k \in r..NRows(M) : M[k][c] # 0}
         IN  IF pivots = {}
             THEN RrefFrom(p, M, r, c + 1)
             ELSE LET k == CHOOSE x \in pivots : \A y \in pivots : x <= y
                      swapped == [M EXCEPT ![r] = M[k], ![k] = M[r]]
                      inv == Inverse(p, swapped[r][c])
                      prow == [j \in 1..NCols(M) |-> (swapped[r][j] * inv) % p]
                      cleared ==
                          [i \in 1..NRows(M) |->
                              IF i = r THEN prow
                              ELSE [j \in 1..NCols(M) |->
                                      (swapped[i][j] + (p - swapped[i][c]) * prow[j]) % p]]
                  IN  RrefFrom(p, cleared, r + 1, c + 1)

\* elem.rref()
rref(p, M) == RrefFrom(p, M, 1, 1)

\* elem.rank()
rank(p, M) ==
    Cardinality({r \in 1..NRows(M) : \E c \in 1..NCols(M) : rref(p, M)[r][c] # 0})

\* elem.columns()[0] == 0 * elem.columns()[0]
first_column_zero(M) == Column(M, 0) = [r \in 1..NRows(M) |-> 0 * Column(M, 0)[r]]

\* firstsets yields a matrix of subsets(size) whose first column is zero, that
\* is its own reduced row echelon form, and that has full rank.
firstsets_yields(slf, elem, sz) ==
    /\ subsets_passing(slf, elem, sz)
    /\ first_column_zero(elem)
    /\ rref(slf.modulus, elem) = elem
    /\ rank(slf.modulus, elem) = Min2(sz, slf.dimension)

\* secondsets yields a matrix of subsets(size) whose first column is zero.
secondsets_yields(slf, elem, sz) ==
    /\ subsets_passing(slf, elem, sz)
    /\ first_column_zero(elem)

\* The cursor after a matrix in the iteration of its MatrixSpace, None at the end.
Advance(p, M) == IF HasNextMatrix(p, M) THEN NextMatrix(p, M) ELSE None

\* One turn of the for loop of subsets(size): the next matrix of the space is
\* yielded when its columns pass.
subsets_step ==
    /\ pc = "subsets"
    /\ IF subsets_passing(self, elem0, size)
       THEN yielded' = Append(yielded, elem0)
       ELSE yielded' = yielded
    /\ elem0' = Advance(self.modulus, elem0)
    /\ pc' = IF elem0' = None THEN "done" ELSE "subsets"
    /\ UNCHANGED <<self, S, size, result, indices, lis>>
    /\ UNCHANGED <<elem1, H, idx, passing, visited, reported>>
    /\ UNCHANGED bvVars /\ UNCHANGED rowVars

InitSubsets ==
    /\ pc = "subsets"
    /\ self \in SPInstances
    /\ size \in Sizes(self.dimension)
    /\ elem0 = ZeroMatrix(self.dimension, size)
    /\ yielded = <<>>
    /\ S = self
    /\ result = None /\ indices = None /\ lis = None
    /\ vec0 = None /\ vec1 = None /\ vec2 = None /\ printed = None /\ iters = None
    /\ row0 = None /\ row1 = None
    /\ elem1 = None /\ H = None /\ idx = None
    /\ passing = None /\ visited = None /\ reported = None

NextSubsets == subsets_step

SpecSubsets == InitSubsets /\ [][NextSubsets]_vars

\* All dimension x size matrices over Z_p.
AllMatrices(p, d, sz) ==
    {ToMatrix(v, d, sz) : v \in [1..(d * sz) -> 0..(p - 1)]}

\* The position of a point in the fixed point order, stated without the
\* list: the number of points that come before it (lighter ones, and among
\* those of its weight the lexicographically larger).
LexGreater(u, v) ==
    \E k \in 1..Len(u) : u[k] > v[k] /\ \A j \in 1..(k - 1) : u[j] = v[j]

PointBefore(u, v) ==
    \/ SumFrom(u, 1) < SumFrom(v, 1)
    \/ SumFrom(u, 1) = SumFrom(v, 1) /\ LexGreater(u, v)

StrictlyIncreasingColumns(M) ==
    \A c \in 1..(NCols(M) - 1) : PointBefore(Column(M, c - 1), Column(M, c))

ColumnSet(M) == {Column(M, c - 1) : c \in 1..NCols(M)}

RECURSIVE Binomial(_, _)
Binomial(n, k) ==
    IF k > n THEN 0
    ELSE IF k = 0 THEN 1
    ELSE (Binomial(n - 1, k - 1) * n) \div k

\* C6: subsets(size) yields a dimension x size matrix exactly when its columns
\* are strictly increasing in the point order, and yields it once; so no
\* yielded matrix repeats a column, and no two yielded matrices are column
\* permutations of each other.
C6_SubsetsCanonical ==
    /\ \A k \in 1..Len(yielded) :
          /\ StrictlyIncreasingColumns(yielded[k])
          /\ Cardinality(ColumnSet(yielded[k])) = size
    /\ Cardinality({ColumnSet(yielded[k]) : k \in 1..Len(yielded)}) = Len(yielded)
    /\ pc = "done" =>
          /\ \A M \in AllMatrices(self.modulus, self.dimension, size) :
                StrictlyIncreasingColumns(M) => InSeq(M, yielded)
          /\ Len(yielded) = Binomial(Pow(self.modulus, self.dimension), size)

C6_Witness ==
    /\ pc = "done"
    /\ self.modulus = 3 /\ self.dimension = 2 /\ size = 3
    /\ Len(yielded) = 84

-----------------------------------------------------------------------------
(* loghadamard, row_difference, runtest. *)

PyError(name) == [t |-> "error", v |-> <<name>>]

RECURSIVE DotFrom(_, _, _, _)
DotFrom(p, u, v, k) ==
    IF k > Len(u) THEN 0 ELSE (u[k] * v[k] + DotFrom(p, u, v, k + 1)) % p

\* loghadamard: E.transpose() * B, over the field of E and B.
loghadamard(p, E, B) ==
    [i \in 1..NCols(E) |->
        [j \in 1..NCols(B) |-> DotFrom(p, Column(E, i - 1), Column(B, j - 1), 1)]]

\* The second loop of row_difference from its k-th turn on: entry is used as
\* a list index, and the value found there is the counter that is raised.  A
\* list index past the end raises IndexError, a value that is no key of
\* counters raises KeyError.
RECURSIVE row_difference_tally(_, _, _)
row_difference_tally(difference_vector, counters, k) ==
    IF k > Len(difference_vector)
    THEN [raised |-> "", counters |-> counters]
    ELSE LET entry == difference_vector[k]
         IN  IF entry >= Len(difference_vector)
             THEN [raised |-> "IndexError", counters |-> counters]
             ELSE LET value == difference_vector[entry + 1]
                  IN  IF value \notin DOMAIN counters
                      THEN [raised |-> "KeyError", counters |-> counters]
                      ELSE row_difference_tally(difference_vector,
                              [counters EXCEPT ![value] = counters[value] + 1], k + 1)

\* The tally by value: the counter of each entry's own value is raised.
RECURSIVE tally_by_value(_, _, _)
tally_by_value(difference_vector, counters, k) ==
    IF k > Len(difference_vector)
    THEN [raised |-> "", counters |-> counters]
    ELSE LET value == difference_vector[k]
         IN  IF value \notin DOMAIN counters
             THEN [raised |-> "KeyError", counters |-> counters]
             ELSE tally_by_value(difference_vector,
                     [counters EXCEPT ![value] = counters[value] + 1], k + 1)

row_difference_by_value(slf, p, r0, r1) ==
    LET difference_vector == [k \in 1..Len(r0) |-> FieldSub(p, r0[k], r1[k])]
        tally == tally_by_value(difference_vector,
                                [i \in 0..(slf.modulus - 1) |-> 0], 1)
    IN  IF tally.raised # ""
        THEN PyError(tally.raised)
        ELSE PyBool(\A i \in 0..(slf.modulus - 2) :
                        tally.counters[i] = tally.counters[i + 1])

\* row_difference on two rows over Z_p: the value returned or the error raised.
row_difference(slf, p, r0, r1) ==
    LET difference_vector == [k \in 1..Len(r0) |-> FieldSub(p, r0[k], r1[k])]
        tally == row_difference_tally(difference_vector,
                                      [i \in 0..(slf.modulus - 1) |-> 0], 1)
    IN  IF tally.raised # ""
        THEN PyError(tally.raised)
        ELSE PyBool(\A i \in 0..(slf.modulus - 2) :
                        tally.counters[i] = tally.counters[i + 1])

\* The call row_difference(row0, row1).
row_difference_call ==
    /\ pc = "row_difference"
    /\ result' = row_difference(self, self.modulus, row0, row1)
    /\ pc' = "done"
    /\ UNCHANGED <<self, S, size>>
    /\ UNCHANGED bvVars /\ UNCHANGED genVars /\ UNCHANGED rowVars
    /\ UNCHANGED runVars

InitRowDifference ==
    /\ pc = "row_difference"
    /\ self \in SPInstances
    /\ S = self
    /\ size \in 1..MaxRowLen
    /\ row0 \in [1..size -> 0..(self.modulus - 1)]
    /\ row1 \in [1..size -> 0..(self.modulus - 1)]
    /\ result = None
    /\ vec0 = None /\ vec1 = None /\ vec2 = None /\ printed = None /\ iters = None
    /\ indices = None /\ lis = None /\ yielded = None
    /\ elem0 = None /\ elem1 = None /\ H = None /\ idx = None
    /\ passing = None /\ visited = None /\ reported = None

NextRowDifference == row_difference_call

SpecRowDifference == InitRowDifference /\ [][NextRowDifference]_vars

\* How many entries of row0 - row1 have the value a.
Bucket(a) ==
    Cardinality({k \in 1..Len(row0) : (row0[k] - row1[k] + self.modulus) % self.modulus = a})

\* C3: row_difference(row0, row1) returns true exactly when the entries of
\* row0 - row1, tallied by their value into the buckets 0..modulus-1, give
\* the same count in every bucket, and false otherwise.
C3_RowDifferenceTalliesValues ==
    pc = "done" =>
        result = PyBool(\A a, b \in 0..(self.modulus - 1) : Bucket(a) = Bucket(b))

-----------------------------------------------------------------------------
(* runtest.  Its two for loops run over S.firstsets(size) and                *)
(* S.secondsets(size): the generators of the instance the module-level name  *)
(* S is bound to, whatever instance runtest is called on.                    *)

\* [(i,j) for i in range(size) for j in range(size)], as Python indices.
row_pairs(sz) == [k \in 1..(sz * sz) |-> <<(k - 1) \div sz, (k - 1) % sz>>]

\* The instance whose generators runtest drives.
runtest_sets == S

\* The outer generator: the next matrix of the space is tried; one that
\* firstsets yields starts the inner loop, and the end of the space ends runtest.
runtest_firstsets ==
    /\ pc = "firstsets"
    /\ IF elem0 = None
       THEN /\ pc' = "done"
            /\ UNCHANGED <<elem0, elem1>>
       ELSE IF firstsets_yields(runtest_sets, elem0, size)
            THEN /\ elem1' = ZeroMatrix(runtest_sets.dimension, size)
                 /\ pc' = "secondsets"
                 /\ UNCHANGED elem0
            ELSE /\ elem0' = Advance(runtest_sets.modulus, elem0)
                 /\ pc' = "firstsets"
                 /\ UNCHANGED elem1
    /\ UNCHANGED <<self, S, size, result, H, idx, passing, visited, reported>>
    /\ UNCHANGED bvVars /\ UNCHANGED genVars /\ UNCHANGED rowVars

\* The inner generator: the next matrix of the space is tried; one that
\* secondsets yields gets its log-Hadamard matrix, and the end of the space
\* resumes the outer generator.
runtest_secondsets ==
    /\ pc = "secondsets"
    /\ IF elem1 = None
       THEN /\ elem0' = Advance(runtest_sets.modulus, elem0)
            /\ pc' = "firstsets"
            /\ UNCHANGED <<elem1, H, idx, passing, visited>>
       ELSE IF secondsets_yields(runtest_sets, elem1, size)
            THEN /\ H' = loghadamard(runtest_sets.modulus, elem0, elem1)
                 /\ passing' = TRUE
                 /\ idx' = 1
                 /\ visited' = Append(visited, <<elem0, elem1>>)
                 /\ pc' = "rows"
                 /\ UNCHANGED <<elem0, elem1>>
            ELSE /\ elem1' = Advance(runtest_sets.modulus, elem1)
                 /\ pc' = "secondsets"
                 /\ UNCHANGED <<elem0, H, idx, passing, visited>>
    /\ UNCHANGED <<self, S, size, result, reported>>
    /\ UNCHANGED bvVars /\ UNCHANGED genVars /\ UNCHANGED rowVars

\* One turn of the loop over the row pairs: a failing pair of distinct rows
\* clears the flag and breaks, an error raised by row_difference leaves
\* runtest, and the end of the list leaves the loop.
runtest_rows ==
    /\ pc = "rows"
    /\ IF idx > Len(row_pairs(size))
       THEN /\ pc' = "endpair"
            /\ UNCHANGED <<idx, passing, result>>
       ELSE LET i == row_pairs(size)[idx][1]
                j == row_pairs(size)[idx][2]
                r == row_difference(self, runtest_sets.modulus, H[i + 1], H[j + 1])
            IN  IF i = j
                THEN /\ idx' = idx + 1
                     /\ pc' = "rows"
                     /\ UNCHANGED <<passing, result>>
                ELSE IF r.t = "error"
                THEN /\ result' = r
                     /\ pc' = "raised"
                     /\ UNCHANGED <<idx, passing>>
                ELSE IF r = PyBool(FALSE)
                THEN /\ passing' = FALSE
                     /\ pc' = "endpair"
                     /\ UNCHANGED <<idx, result>>
                ELSE /\ idx' = idx + 1
                     /\ pc' = "rows"
                     /\ UNCHANGED <<passing, result>>
    /\ UNCHANGED <<self, S, size, elem0, elem1, H, visited, reported>>
    /\ UNCHANGED bvVars /\ UNCHANGED genVars /\ UNCHANGED rowVars

\* After the loop over the row pairs: a pair still passing is printed, and
\* the inner generator is resumed.
runtest_endpair ==
    /\ pc = "endpair"
    /\ IF passing = TRUE
       THEN reported' = Append(reported, <<elem0, elem1, H>>)
       ELSE reported' = reported
    /\ elem1' = Advance(runtest_sets.modulus, elem1)
    /\ pc' = "secondsets"
    /\ UNCHANGED <<self, S, size, result, elem0, H, idx, passing, visited>>
    /\ UNCHANGED bvVars /\ UNCHANGED genVars /\ UNCHANGED rowVars

InitRuntestCommon ==
    /\ pc = "firstsets"
    /\ elem0 = ZeroMatrix(S.dimension, size)
    /\ elem1 = None /\ H = None /\ idx = 0 /\ passing = TRUE
    /\ visited = <<>> /\ reported = <<>>
    /\ result = None
    /\ vec0 = None /\ vec1 = None /\ vec2 = None /\ printed = None /\ iters = None
    /\ indices = None /\ lis = None /\ yielded = None
    /\ row0 = None /\ row1 = None

\* runtest(size) called on any instance, with S bound to any instance.
InitRuntest ==
    /\ S \in SPInstances
    /\ self \in SPInstances
    /\ size \in Sizes(S.dimension)
    /\ InitRuntestCommon

NextRuntest ==
    \/ runtest_firstsets
    \/ runtest_secondsets
    \/ runtest_rows
    \/ runtest_endpair

SpecRuntest == InitRuntest /\ [][NextRuntest]_vars

\* The configuration of the script at the end of Fuglede.py.
DemoModulus == 2
DemoDimension == 3
DemoSize == 4

\* S = SubsetPairs(2,3); S.runtest(4)
InitDemo ==
    /\ S = SubsetPairs(DemoModulus, DemoDimension)
    /\ self = S
    /\ size = DemoSize
    /\ InitRuntestCommon

SpecDemo == InitDemo /\ [][NextRuntest]_vars

-----------------------------------------------------------------------------
(* Properties of runtest. *)

\* What firstsets(size) and secondsets(size) of an instance yield, as sets.
FirstSetsOf(slf, sz) ==
    {M \in AllMatrices(slf.modulus, slf.dimension, sz) : firstsets_yields(slf, M, sz)}

SecondSetsOf(slf, sz) ==
    {M \in AllMatrices(slf.modulus, slf.dimension, sz) : secondsets_yields(slf, M, sz)}

SeqSet(seq) == {seq[k] : k \in 1..Len(seq)}

\* Whether row_difference is true for every ordered pair of distinct rows of
\* the log-Hadamard matrix of E and B.
AllRowPairsPass(E, B) ==
    LET HH == loghadamard(S.modulus, E, B)
    IN  \A i, j \in 1..Len(HH) :
            i # j => row_difference(self, S.modulus, HH[i], HH[j]) = PyBool(TRUE)

Ended == pc \in {"done", "raised"}

\* C4: runtest(size), called on the instance S names, visits every pair of
\* firstsets(size) x secondsets(size) exactly once and reports (E, B, H)
\* exactly when every ordered pair of distinct rows of H passes
\* row_difference; a pair is rejected at its first failing row pair, and
\* runtest goes on with the next pair.
C4_RuntestVisitsEveryPair ==
    self = S =>
        /\ (pc = "endpair" /\ passing = FALSE) =>
              /\ row_pairs(size)[idx][1] # row_pairs(size)[idx][2]
              /\ ~AllRowPairsPass(elem0, elem1)
        /\ Ended =>
              /\ SeqSet(visited) = FirstSetsOf(S, size) \X SecondSetsOf(S, size)
              /\ NoDuplicates(visited)
              /\ \A k \in 1..Len(visited) :
                    InSeq(<<visited[k][1], visited[k][2],
                            loghadamard(S.modulus, visited[k][1], visited[k][2])>>,
                          reported)
                       <=> AllRowPairsPass(visited[k][1], visited[k][2])

MatrixOf(slf, M, sz) ==
    /\ NRows(M) = slf.dimension
    /\ NCols(M) = sz
    /\ \A r \in 1..NRows(M) : \A c \in 1..NCols(M) : M[r][c] \in 0..(slf.modulus - 1)

\* C9: runtest(size) called on an instance tests exactly the pairs of that
\* instance's own firstsets(size) x secondsets(size), whatever instance the
\* module-level name S is bound to.
C9_RuntestUsesOwnSubsets ==
    /\ \A k \in 1..Len(visited) :
          /\ MatrixOf(self, visited[k][1], size)
          /\ MatrixOf(self, visited[k][2], size)
          /\ firstsets_yields(self, visited[k][1], size)
          /\ secondsets_yields(self, visited[k][2], size)
    /\ pc = "done" =>
          SeqSet(visited) = FirstSetsOf(self, size) \X SecondSetsOf(self, size)

====
